---- MODULE Spec2Model ----
(***************************************************************************)
(* Barnes-Lehman-Mulla flat resolution (libs/flats/flat_resolution.hpp).   *)
(*                                                                         *)
(* The state is the set of rasters the driver barnes_flat_resolution_d8    *)
(* owns (elevations, flowdirs, flat_mask, labels), the two edge queues of  *)
(* resolve_flats_barnes, the locals of the stage that is running and the   *)
(* position of the driver.  Elevations are kept as the ordinal of the      *)
(* float (the bit pattern of a non-negative IEEE-754 single, which is      *)
(* order-isomorphic to its value), so that nextafterf(e,+inf) is e+1.      *)
(***************************************************************************)
EXTENDS Integers, Sequences, FiniteSets, TLC

VARIABLES
  view_width,    \* Array2D::viewWidth() of every raster of the run
  view_height,   \* Array2D::viewHeight()
  elevations,    \* Array2D<T> elevations
  flowdirs,      \* Array2D<U> flowdirs
  flat_mask,     \* Array2D<int32_t> flat_mask
  labels,        \* Array2D<int32_t> labels
  low_edges,     \* std::deque<grid_cell> low_edges  (resolve_flats_barnes)
  high_edges,    \* std::deque<grid_cell> high_edges (resolve_flats_barnes)
  seed_index,    \* position of the iterator i in the labelling loop (1-based)
  group_number,  \* int group_number
  flat_height,   \* std::vector<int> flat_height
  edges,         \* the by-value queue of the gradient stage that is running
  loops,         \* int loops of the gradient stage that is running
  pc             \* position of the driver

vars == <<view_width, view_height, elevations, flowdirs, flat_mask, labels,
          low_edges, high_edges, seed_index, group_number, flat_height,
          edges, loops, pc>>

(***************************************************************************)
(* Bounds of the checked inputs.                                           *)
(***************************************************************************)
GridW == 4
GridH == 3
MaxOdd == 2
MaxMask == 2

(***************************************************************************)
(* Program constants.                                                      *)
(***************************************************************************)
NO_FLOW == 0
FlowNoData == 255
ElevNoData == -1
MaskNoData == -1
FloatInf == 2139095040

\* //234
\* //105
\* //876
dx == <<-1, -1, 0, 1, 1, 1, 0, -1>>
dy == <<0, -1, -1, -1, 0, 1, 1, 1>>

iteration_marker == <<-1, -1>>

grid_cell(x, y) == <<x, y>>

Cells(w, h) == (0 .. (w - 1)) \X (0 .. (h - 1))

GridCells == Cells(view_width, view_height)

in_grid(c) == /\ c[1] >= 0 /\ c[1] < view_width
              /\ c[2] >= 0 /\ c[2] < view_height

Nbr(c, n) == grid_cell(c[1] + dx[n], c[2] + dy[n])

isInterior(c) == /\ c[1] >= 1 /\ c[1] < view_width - 1
                 /\ c[2] >= 1 /\ c[2] < view_height - 1

\* The cells in the order of the sweeps "for x ... for y ...".
ScanCells == [k \in 1 .. (view_width * view_height) |->
                grid_cell((k - 1) \div view_height, (k - 1) % view_height)]

\* The in-grid neighbours of c in the order n = 1..8.
NeighbourSeq(c) == SelectSeq([n \in 1 .. 8 |-> Nbr(c, n)], in_grid)

SetMin(S) == CHOOSE m \in S : \A s \in S : m <= s
SetMax(S) == CHOOSE m \in S : \A s \in S : m >= s

(***************************************************************************)
(* d8_flow_directions: the steepest-descent pass the driver calls.         *)
(***************************************************************************)
d8_FlowDir(elev, c) ==
  LET lower == {n \in 1 .. 8 : /\ in_grid(Nbr(c, n))
                               /\ elev[Nbr(c, n)] # ElevNoData
                               /\ elev[Nbr(c, n)] < elev[c]}
  IN IF lower = {} THEN NO_FLOW
     ELSE LET lowest == SetMin({elev[Nbr(c, n)] : n \in lower})
          IN SetMin({n \in lower : elev[Nbr(c, n)] = lowest})

d8_flow_directions(elev) ==
  [c \in GridCells |-> IF elev[c] = ElevNoData THEN FlowNoData
                       ELSE d8_FlowDir(elev, c)]

(***************************************************************************)
(* find_flat_edges                                                         *)
(***************************************************************************)
IsLowEdgePair(c, nc) ==
  /\ flowdirs[c] # NO_FLOW
  /\ flowdirs[nc] = NO_FLOW
  /\ elevations[nc] = elevations[c]

\* Faulty variant: the high-edge test without the check that the cell itself has no flow.
IsHighEdgePair_AnyCell(c, nc) == elevations[c] < elevations[nc]

IsHighEdgePair(c, nc) ==
  /\ flowdirs[c] = NO_FLOW
  /\ elevations[c] < elevations[nc]

\* The neighbour loop of one cell: "low", "high" or "none".
RECURSIVE EdgeKind(_, _)
EdgeKind(c, n) ==
  IF n > 8 THEN "none"
  ELSE LET nc == Nbr(c, n)
       IN IF ~in_grid(nc) THEN EdgeKind(c, n + 1)
          ELSE IF flowdirs[nc] = FlowNoData THEN EdgeKind(c, n + 1)
          ELSE IF IsLowEdgePair(c, nc) THEN "low"
          ELSE IF IsHighEdgePair(c, nc) THEN "high"
          ELSE EdgeKind(c, n + 1)

CellEdgeKind(c) == IF flowdirs[c] = FlowNoData THEN "none" ELSE EdgeKind(c, 1)

IsLowEdgeCell(c) == CellEdgeKind(c) = "low"
IsHighEdgeCell(c) == CellEdgeKind(c) = "high"

find_flat_edges ==
  /\ pc = "find_flat_edges"
  /\ low_edges' = SelectSeq(ScanCells, IsLowEdgeCell)
  /\ high_edges' = SelectSeq(ScanCells, IsHighEdgeCell)
  /\ pc' = "label"
  /\ UNCHANGED <<view_width, view_height, elevations, flowdirs, flat_mask,
                 labels, seed_index, group_number, flat_height, edges, loops>>

\* resolve_flats_barnes: "if(low_edges.size()==0) ... return;"
return_no_outlets ==
  /\ pc = "label"
  /\ Len(low_edges) = 0
  /\ pc' = "resolved"
  /\ UNCHANGED <<view_width, view_height, elevations, flowdirs, flat_mask,
                 labels, low_edges, high_edges, seed_index, group_number,
                 flat_height, edges, loops>>

(***************************************************************************)
(* label_this                                                              *)
(***************************************************************************)
\* Faulty variant: a 4-connected flood fill.
FillNeighbours_Cardinal(c) ==
  SelectSeq([k \in 1 .. 4 |-> Nbr(c, 2 * k - 1)], in_grid)

FillNeighbours(c) == NeighbourSeq(c)

\* Faulty variant: the flood fill without its elevation test.
SameElevation_Any(c, target_elevation) == TRUE

SameElevation(c, target_elevation) == elevations[c] = target_elevation

\* The while loop of label_this.  The entries the loop pops and discards
\* (another elevation, or a cell that already bears a label) are passed over
\* together: the next cell to be labelled is the first entry of the queue
\* that passes both tests, and the queue ends when none does.
RECURSIVE label_fill(_, _, _, _)
label_fill(to_fill, labs, label, target_elevation) ==
  LET taken == {i \in 1 .. Len(to_fill) :
                  /\ SameElevation(to_fill[i], target_elevation)
                  /\ labs[to_fill[i]] = 0}
  IN IF taken = {} THEN labs
     ELSE LET i == SetMin(taken)
              c == to_fill[i]
          IN label_fill(SubSeq(to_fill, i + 1, Len(to_fill)) \o FillNeighbours(c),
                        [labs EXCEPT ![c] = label], label, target_elevation)

label_this(c0, label, labs) == label_fill(<<c0>>, labs, label, elevations[c0])

\* One iteration of "for(auto i=low_edges.begin();i!=low_edges.end();++i)".
label_flats ==
  /\ pc = "label"
  /\ Len(low_edges) > 0
  /\ seed_index <= Len(low_edges)
  /\ IF labels[low_edges[seed_index]] = 0
       THEN /\ labels' = label_this(low_edges[seed_index], group_number, labels)
            /\ group_number' = group_number + 1
       ELSE UNCHANGED <<labels, group_number>>
  /\ seed_index' = seed_index + 1
  /\ UNCHANGED <<view_width, view_height, elevations, flowdirs, flat_mask,
                 low_edges, high_edges, flat_height, edges, loops, pc>>

(***************************************************************************)
(* Removing flats without outlets from the queue, the flat height vector,  *)
(* and the entry of BuildAwayGradient.                                     *)
(***************************************************************************)
\* Faulty variant: high edges of unlabelled flats are kept in the queue.
HasOutlet_Any(c) == TRUE

HasOutlet(c) == labels[c] # 0

remove_flats_without_outlets ==
  /\ pc = "label"
  /\ Len(low_edges) > 0
  /\ seed_index > Len(low_edges)
  /\ high_edges' = SelectSeq(high_edges, HasOutlet)
  /\ flat_height' = [l \in 0 .. (group_number - 1) |-> 0]
  /\ edges' = Append(high_edges', iteration_marker)
  /\ loops' = 1
  /\ pc' = "away"
  /\ UNCHANGED <<view_width, view_height, elevations, flowdirs, flat_mask,
                 labels, low_edges, seed_index, group_number>>

(***************************************************************************)
(* BuildAwayGradient: one iteration of the while loop.                     *)
(***************************************************************************)
AwayPushes(c, nc) == /\ labels[nc] = labels[c]
                     /\ flowdirs[nc] = NO_FLOW

AwayNeighbours(c) == SelectSeq(NeighbourSeq(c), LAMBDA nc : AwayPushes(c, nc))

\* Faulty variant: the away gradient one increment too high.
AwayValue_OffByOne(lp) == lp + 1

\* Faulty variant: the away gradient writes a value that is not positive.
AwayValue_Zero(lp) == 0

AwayValue(lp) == lp

NextLoops(lp) == lp + 1

BuildAwayGradient ==
  /\ pc = "away"
  /\ Len(edges) # 1
  /\ LET c == Head(edges)
         rest == Tail(edges)
     IN IF c = iteration_marker
          THEN /\ loops' = NextLoops(loops)
               /\ edges' = Append(rest, iteration_marker)
               /\ UNCHANGED <<flat_mask, flat_height>>
        ELSE IF flat_mask[c] > 0
          THEN /\ edges' = rest
               /\ UNCHANGED <<flat_mask, flat_height, loops>>
        ELSE /\ flat_mask' = [flat_mask EXCEPT ![c] = AwayValue(loops)]
             /\ flat_height' = [flat_height EXCEPT ![labels[c]] = loops]
             /\ edges' = rest \o AwayNeighbours(c)
             /\ UNCHANGED loops
  /\ UNCHANGED <<view_width, view_height, elevations, flowdirs, labels,
                 low_edges, high_edges, seed_index, group_number, pc>>

(***************************************************************************)
(* BuildTowardsCombinedGradient: the sign flip and the entry of the loop,  *)
(* then one iteration of the while loop per step.                          *)
(***************************************************************************)
toward_flip ==
  /\ pc = "away"
  /\ Len(edges) = 1
  /\ flat_mask' = [c \in GridCells |-> flat_mask[c] * (-1)]
  /\ edges' = Append(low_edges, iteration_marker)
  /\ loops' = 1
  /\ pc' = "toward"
  /\ UNCHANGED <<view_width, view_height, elevations, flowdirs, labels,
                 low_edges, high_edges, seed_index, group_number, flat_height>>

\* Faulty variant: the toward expansion pushes only cells the away gradient left at 0.
TowardPushes_UntouchedOnly(c, nc) == /\ labels[nc] = labels[c]
                                     /\ flowdirs[nc] = NO_FLOW
                                     /\ flat_mask[nc] = 0

TowardPushes(c, nc) == /\ labels[nc] = labels[c]
                       /\ flowdirs[nc] = NO_FLOW

TowardNeighbours(c) == SelectSeq(NeighbourSeq(c), LAMBDA nc : TowardPushes(c, nc))

\* Faulty variant: the toward distance weighted 1 instead of 2.
CombinedValue_SingleWeight(height, mask, lp) == (height + mask) + lp

CombinedValue(height, mask, lp) == (height + mask) + 2 * lp

\* Faulty variant: a cell the away gradient left at 0 gets the toward distance weighted 1.
TowardValue_SingleWeight(lp) == lp

TowardValue(lp) == 2 * lp

BuildTowardsCombinedGradient ==
  /\ pc = "toward"
  /\ Len(edges) # 1
  /\ LET c == Head(edges)
         rest == Tail(edges)
     IN IF c = iteration_marker
          THEN /\ loops' = NextLoops(loops)
               /\ edges' = Append(rest, iteration_marker)
               /\ UNCHANGED flat_mask
        ELSE IF flat_mask[c] > 0
          THEN /\ edges' = rest
               /\ UNCHANGED <<flat_mask, loops>>
        ELSE /\ flat_mask' =
                  [flat_mask EXCEPT ![c] =
                     IF flat_mask[c] # 0
                       THEN CombinedValue(flat_height[labels[c]], flat_mask[c], loops)
                       ELSE TowardValue(loops)]
             /\ edges' = rest \o TowardNeighbours(c)
             /\ UNCHANGED loops
  /\ UNCHANGED <<view_width, view_height, elevations, flowdirs, labels,
                 low_edges, high_edges, seed_index, group_number, flat_height, pc>>

\* resolve_flats_barnes returns after the second gradient.
return_resolved ==
  /\ pc = "toward"
  /\ Len(edges) = 1
  /\ pc' = "resolved"
  /\ UNCHANGED <<view_width, view_height, elevations, flowdirs, flat_mask,
                 labels, low_edges, high_edges, seed_index, group_number,
                 flat_height, edges, loops>>

(***************************************************************************)
(* d8_masked_FlowDir and d8_flow_flats                                     *)
(***************************************************************************)
\* Faulty variant: neighbours of other flats are not skipped.
SameFlat_Any(labs, c, nc) == TRUE

SameFlat(labs, c, nc) == labs[nc] = labs[c]

\* Faulty variant: no cardinal-over-diagonal tie-break.
MaskedTakes_NoTieBreak(value, minimum_elevation, flowdir, n) ==
  value < minimum_elevation

MaskedTakes(value, minimum_elevation, flowdir, n) ==
  \/ value < minimum_elevation
  \/ /\ value = minimum_elevation
     /\ flowdir > 0
     /\ flowdir % 2 = 0
     /\ n % 2 = 1

RECURSIVE masked_scan(_, _, _, _, _, _)
masked_scan(mask, labs, c, n, minimum_elevation, flowdir) ==
  IF n > 8 THEN flowdir
  ELSE LET nc == Nbr(c, n)
       IN IF ~SameFlat(labs, c, nc)
            THEN masked_scan(mask, labs, c, n + 1, minimum_elevation, flowdir)
          ELSE IF MaskedTakes(mask[nc], minimum_elevation, flowdir, n)
            THEN masked_scan(mask, labs, c, n + 1, mask[nc], n)
          ELSE masked_scan(mask, labs, c, n + 1, minimum_elevation, flowdir)

d8_masked_FlowDir(mask, labs, c) == masked_scan(mask, labs, c, 1, mask[c], NO_FLOW)

d8_flow_flats ==
  /\ pc = "resolved"
  /\ flowdirs' = [c \in GridCells |->
                    IF ~isInterior(c) THEN flowdirs[c]
                    ELSE IF flat_mask[c] = MaskNoData THEN flowdirs[c]
                    ELSE IF flowdirs[c] = NO_FLOW
                      THEN d8_masked_FlowDir(flat_mask, labels, c)
                    ELSE flowdirs[c]]
  /\ pc' = "flow_assigned"
  /\ UNCHANGED <<view_width, view_height, elevations, flat_mask, labels,
                 low_edges, high_edges, seed_index, group_number, flat_height,
                 edges, loops>>

(***************************************************************************)
(* d8_flats_alter_dem, followed by the driver's second d8_flow_directions. *)
(***************************************************************************)
RECURSIVE nextafterf_times(_, _)
nextafterf_times(e, i) ==
  IF i <= 0 THEN e
  ELSE nextafterf_times(IF e >= FloatInf THEN e ELSE e + 1, i - 1)

\* Faulty variant: the increment loop runs once more ("i<=flat_mask(x,y)").
AlterSteps_Inclusive(c) == flat_mask[c] + 1

\* "for(int i=0;i<flat_mask(x,y);++i)"
AlterSteps(c) == flat_mask[c]

AlteredElevation(c) ==
  IF ~isInterior(c) THEN elevations[c]
  ELSE IF labels[c] = 0 THEN elevations[c]
  ELSE nextafterf_times(elevations[c], AlterSteps(c))

d8_flats_alter_dem ==
  /\ pc = "resolved"
  /\ elevations' = [c \in GridCells |-> AlteredElevation(c)]
  /\ flowdirs' = d8_flow_directions(elevations')
  /\ pc' = "dem_altered"
  /\ UNCHANGED <<view_width, view_height, flat_mask, labels, low_edges,
                 high_edges, seed_index, group_number, flat_height, edges, loops>>

(***************************************************************************)
(* Inputs.                                                                 *)
(***************************************************************************)
\* The bit pattern of the float v.
f32(v) == CASE v = 1 -> 1065353216
            [] v = 2 -> 1073741824
            [] v = 3 -> 1077936128
            [] v = 4 -> 1082130432
            [] v = 5 -> 1084227584
            [] v = 6 -> 1086324736
            [] v = 7 -> 1088421888
            [] v = 8 -> 1090519040
            [] v = 9 -> 1091567616

\* Rasters that differ from a level plateau at 5.0 in at most k cells, each
\* of them lowered to 1.0 or raised to 9.0.
RECURSIVE Perturbed(_, _, _)
Perturbed(w, h, k) ==
  IF k = 0 THEN {[c \in Cells(w, h) |-> f32(5)]}
  ELSE LET prev == Perturbed(w, h, k - 1)
       IN prev \cup {[r EXCEPT ![c] = v] :
                       r \in prev, c \in Cells(w, h), v \in {f32(1), f32(9)}}

\* The state at the call of resolve_flats_barnes for one input raster.
Entry(w, h, elev) ==
  /\ view_width = w
  /\ view_height = h
  /\ elevations = elev
  /\ flowdirs = d8_flow_directions(elev)
  /\ flat_mask = [c \in Cells(w, h) |-> 0]
  /\ labels = [c \in Cells(w, h) |-> 0]
  /\ low_edges = <<>>
  /\ high_edges = <<>>
  /\ seed_index = 1
  /\ group_number = 1
  /\ flat_height = <<>>
  /\ edges = <<>>
  /\ loops = 1
  /\ pc = "find_flat_edges"

InitPerturbed ==
  \E elev \in Perturbed(GridW, GridH, MaxOdd) : Entry(GridW, GridH, elev)

\* The rasters of the documented scenarios, row by row from y = 0.
RowsRaster(rows) ==
  [c \in Cells(Len(rows[1]), Len(rows)) |-> f32(rows[c[2] + 1][c[1] + 1])]

\* S1: no flats.
S1Rows == << <<9, 8, 7>>,
             <<6, 5, 4>>,
             <<3, 2, 1>> >>

\* S3: a 3x3 flat at 5.0 inside a rim at 9.0, with no outlet.
S3Rows == << <<9, 9, 9, 9, 9>>,
             <<9, 5, 5, 5, 9>>,
             <<9, 5, 5, 5, 9>>,
             <<9, 5, 5, 5, 9>>,
             <<9, 9, 9, 9, 9>> >>

\* S4: two separated plateaus, the right one with an outlet at 1.0.
S4Rows == << <<9, 9, 9, 9, 9, 9, 9, 9, 9>>,
             <<9, 5, 5, 5, 9, 5, 5, 5, 9>>,
             <<9, 5, 5, 5, 9, 5, 5, 5, 1>>,
             <<9, 5, 5, 5, 9, 5, 5, 5, 9>>,
             <<9, 9, 9, 9, 9, 9, 9, 9, 9>> >>

S1Raster == RowsRaster(S1Rows)
S3Raster == RowsRaster(S3Rows)
S4Raster == RowsRaster(S4Rows)

\* S2 and its variants: S3 with one rim cell next to the flat's side lowered
\* to 1.0 (S2 itself has it at (4,2)).
S2Outlets == {c \in Cells(5, 5) :
                \/ c[1] \in {0, 4} /\ c[2] \in 1 .. 3
                \/ c[2] \in {0, 4} /\ c[1] \in 1 .. 3}

S2Raster(outlet) == [S3Raster EXCEPT ![outlet] = f32(1)]

\* S4 with a second outlet, on the left plateau.
S4TwoOutlets == [S4Raster EXCEPT ![grid_cell(0, 2)] = f32(1)]

\* S2 with one cell of the raster missing.
S2Missing(c) == [S2Raster(grid_cell(4, 2)) EXCEPT ![c] = ElevNoData]

InitS2 ==
  \/ \E outlet \in S2Outlets : Entry(5, 5, S2Raster(outlet))
  \/ Entry(5, 5, S3Raster)

InitScenarios ==
  \/ InitS2
  \/ Entry(3, 3, S1Raster)
  \/ Entry(9, 5, S4Raster)
  \/ Entry(9, 5, S4TwoOutlets)
  \/ \E c \in Cells(5, 5) : Entry(5, 5, S2Missing(c))

Init == InitPerturbed \/ InitScenarios

\* Inputs of d8_flow_flats alone: a 3x3 window whose centre is a NO_FLOW cell
\* of flat 1; every neighbour is either outside the flat (label 0, mask 0) or
\* in it with a mask of 1 .. MaxMask.
Centre == grid_cell(1, 1)

MaskedEntry(centre_mask, window) ==
  /\ view_width = 3
  /\ view_height = 3
  /\ elevations = [c \in Cells(3, 3) |-> 1]
  /\ flowdirs = [c \in Cells(3, 3) |-> NO_FLOW]
  /\ flat_mask = [c \in Cells(3, 3) |-> IF c = Centre THEN centre_mask ELSE window[c]]
  /\ labels = [c \in Cells(3, 3) |->
                IF c = Centre THEN 1 ELSE IF window[c] > 0 THEN 1 ELSE 0]
  /\ low_edges = <<>>
  /\ high_edges = <<>>
  /\ seed_index = 1
  /\ group_number = 2
  /\ flat_height = <<>>
  /\ edges = <<iteration_marker>>
  /\ loops = 1
  /\ pc = "resolved"

InitMasked ==
  \E centre_mask \in 1 .. (MaxMask + 1) :
    \E window \in [Cells(3, 3) \ {Centre} -> 0 .. MaxMask] :
      MaskedEntry(centre_mask, window)

SpecMasked == InitMasked /\ [][d8_flow_flats]_vars

resolve_flats_barnes ==
  \/ find_flat_edges
  \/ return_no_outlets
  \/ label_flats
  \/ remove_flats_without_outlets
  \/ BuildAwayGradient
  \/ toward_flip
  \/ BuildTowardsCombinedGradient
  \/ return_resolved

barnes_flat_resolution_d8 ==
  \/ resolve_flats_barnes
  \/ d8_flow_flats
  \/ d8_flats_alter_dem

Next == barnes_flat_resolution_d8

Spec == Init /\ [][Next]_vars

SpecS2 == InitS2 /\ [][Next]_vars

\* The inputs of the runs whose termination is checked: the scenarios and
\* the plateaus with one odd cell fewer.
InitFair ==
  \/ \E elev \in Perturbed(GridW, GridH, MaxOdd - 1) : Entry(GridW, GridH, elev)
  \/ InitScenarios

\* The two while loops run in one sequential call: while the test
\* "edges.size()!=1" holds, the next iteration is executed.
SpecFair ==
  /\ InitFair
  /\ [][Next]_vars
  /\ WF_vars(BuildAwayGradient)
  /\ WF_vars(BuildTowardsCombinedGradient)

(***************************************************************************)
(* Notions the properties are stated with.                                 *)
(***************************************************************************)
AllNeighbours(c) == {d \in {Nbr(c, n) : n \in 1 .. 8} : in_grid(d)}

Adjacent(c, d) == /\ c # d
                  /\ c[1] - d[1] \in -1 .. 1
                  /\ c[2] - d[2] \in -1 .. 1

\* The maximal 8-connected set of cells of c's elevation that contains c,
\* grown one ring at a time.
RECURSIVE Grow(_, _)
Grow(ring, seen) ==
  IF ring = {} THEN seen
  ELSE LET next == {d \in GridCells \ seen :
                      \E c \in ring : Adjacent(c, d) /\ elevations[d] = elevations[c]}
       IN Grow(next, seen \cup next)

Flat(c) == Grow({c}, {c})

\* The partition of a set of cells into such regions.
RECURSIVE FlatsOf(_)
FlatsOf(cells) ==
  IF cells = {} THEN {}
  ELSE LET flat == Flat(CHOOSE c \in cells : TRUE)
       IN {flat} \cup FlatsOf(cells \ flat)

Flats == FlatsOf(GridCells)

SeqSet(q) == {q[k] : k \in 1 .. Len(q)}

LowEdgeSeeds == SeqSet(low_edges)
HighEdgeSeeds == SeqSet(high_edges)

AfterEdgeScanner == pc = "label" /\ seed_index = 1
AfterFlatLabeler == pc = "label" /\ seed_index > Len(low_edges)
AfterAwayGradient == pc = "away" /\ Len(edges) = 1
Resolved == pc = "resolved"

\* C8 (as stated): after find_flat_edges every cell of high_edges and of
\* low_edges has F = NO_FLOW and E # NoData and an 8-neighbour witnessing its
\* class (strictly higher for a high edge, strictly lower for a low edge).
C8_AsStated ==
  AfterEdgeScanner =>
    /\ \A c \in HighEdgeSeeds :
         /\ flowdirs[c] = NO_FLOW
         /\ elevations[c] # ElevNoData
         /\ \E d \in AllNeighbours(c) :
              elevations[d] # ElevNoData /\ elevations[d] > elevations[c]
    /\ \A c \in LowEdgeSeeds :
         /\ flowdirs[c] = NO_FLOW
         /\ elevations[c] # ElevNoData
         /\ \E d \in AllNeighbours(c) :
              elevations[d] # ElevNoData /\ elevations[d] < elevations[c]

\* C8 (amended): after find_flat_edges every high-edge cell has F = NO_FLOW
\* and a strictly higher 8-neighbour; every low-edge cell has a flow direction
\* in 1..8 (not NO_FLOW) that points to a strictly lower neighbour, and an
\* 8-neighbour of its own elevation with F = NO_FLOW; neither is NoData, and
\* no cell is in both queues or twice in one.
C8_EdgeCells ==
  AfterEdgeScanner =>
    /\ \A c \in HighEdgeSeeds :
         /\ flowdirs[c] = NO_FLOW
         /\ elevations[c] # ElevNoData
         /\ \E d \in AllNeighbours(c) :
              elevations[d] # ElevNoData /\ elevations[d] > elevations[c]
    /\ \A c \in LowEdgeSeeds :
         /\ flowdirs[c] \in 1 .. 8
         /\ elevations[c] # ElevNoData
         /\ elevations[Nbr(c, flowdirs[c])] < elevations[c]
         /\ elevations[Nbr(c, flowdirs[c])] # ElevNoData
         /\ \E d \in AllNeighbours(c) :
              flowdirs[d] = NO_FLOW /\ elevations[d] = elevations[c]
    /\ HighEdgeSeeds \cap LowEdgeSeeds = {}
    /\ Cardinality(HighEdgeSeeds) = Len(high_edges)
    /\ Cardinality(LowEdgeSeeds) = Len(low_edges)

C8_Witness ==
  /\ AfterEdgeScanner
  /\ Len(low_edges) >= 2
  /\ Len(high_edges) >= 2
  /\ \E c \in GridCells : elevations[c] = ElevNoData

HasLowerNeighbour(c) ==
  \E d \in AllNeighbours(c) :
    elevations[d] # ElevNoData /\ elevations[d] < elevations[c]

AllNeighboursLevel(c) ==
  \A n \in 1 .. 8 :
    in_grid(Nbr(c, n)) /\ elevations[Nbr(c, n)] = elevations[c]

NonFlatCell(c) ==
  /\ elevations[c] # ElevNoData
  /\ HasLowerNeighbour(c)
  /\ ~AllNeighboursLevel(c)

\* C9 (as stated): after the labelling loop every cell with a strictly lower
\* 8-neighbour and not all 8 neighbours at its own elevation has L = 0 unless
\* it is one of the low-edge seeds.
C9_AsStated ==
  AfterFlatLabeler =>
    \A c \in GridCells :
      (NonFlatCell(c) /\ c \notin LowEdgeSeeds) => labels[c] = 0

\* C9 (amended): after the labelling loop a cell with a strictly lower
\* 8-neighbour and not all 8 neighbours at its own elevation has L > 0 exactly
\* when it is a low-edge seed or is joined to a low-edge seed by an
\* 8-connected path of cells of its own elevation; it then bears that seed's
\* label.
C9_NonFlatCells ==
  AfterFlatLabeler =>
    \A flat \in Flats :
      LET seeds == flat \cap LowEdgeSeeds
      IN \A c \in flat :
           NonFlatCell(c) =>
             /\ labels[c] > 0 <=> seeds # {}
             /\ \A s \in seeds : labels[c] = labels[s]

C9_Witness ==
  /\ AfterFlatLabeler
  /\ \E c \in GridCells :
       NonFlatCell(c) /\ c \notin LowEdgeSeeds /\ labels[c] > 0
  /\ \E c \in GridCells :
       NonFlatCell(c) /\ c \notin LowEdgeSeeds /\ labels[c] = 0

(***************************************************************************)
(* Hop distances, computed by layers and not by the queue.                 *)
(***************************************************************************)
\* The least number of 8-neighbour hops to every cell from a set of seeds over
\* the cells the expansions push (same label, F = NO_FLOW); -1 where there
\* is no path.
RECURSIVE HopsNoFlow(_, _, _, _)
HopsNoFlow(ring, seen, k, hops) ==
  IF ring = {} THEN hops
  ELSE LET next == {d \in GridCells \ seen :
                      /\ flowdirs[d] = NO_FLOW
                      /\ \E c \in ring : Adjacent(c, d) /\ labels[d] = labels[c]}
       IN HopsNoFlow(next, seen \cup next, k + 1,
                     [d \in GridCells |-> IF d \in ring THEN k ELSE hops[d]])

\* The same over all the cells of the same label.
RECURSIVE HopsLabel(_, _, _, _)
HopsLabel(ring, seen, k, hops) ==
  IF ring = {} THEN hops
  ELSE LET next == {d \in GridCells \ seen :
                      \E c \in ring : Adjacent(c, d) /\ labels[d] = labels[c]}
       IN HopsLabel(next, seen \cup next, k + 1,
                    [d \in GridCells |-> IF d \in ring THEN k ELSE hops[d]])

NoHops == [c \in GridCells |-> -1]

\* Hops from the nearest high-edge seed (of the cell's own flat, as a hop
\* never leaves a label).
AwayHops == HopsNoFlow(HighEdgeSeeds, HighEdgeSeeds, 0, NoHops)
AwayHopsInLabel == HopsLabel(HighEdgeSeeds, HighEdgeSeeds, 0, NoHops)
\* Hops from the nearest low-edge seed.
TowardHops == HopsNoFlow(LowEdgeSeeds, LowEdgeSeeds, 0, NoHops)
TowardHopsInLabel == HopsLabel(LowEdgeSeeds, LowEdgeSeeds, 0, NoHops)

\* C10 (as stated): after BuildAwayGradient, every reached cell c of a flat
\* l > 0 has M(c) equal to the number of 8-neighbour hops inside l from the
\* nearest high-edge seed of l, and flat_height[l] is the maximum of that
\* distance over the cells of l.
C10_AsStated ==
  AfterAwayGradient =>
    LET hops == AwayHopsInLabel
    IN /\ \A c \in GridCells :
            (labels[c] > 0 /\ flat_mask[c] > 0) => flat_mask[c] = hops[c]
       /\ \A l \in 1 .. (group_number - 1) :
            LET reached == {c \in GridCells : labels[c] = l /\ flat_mask[c] > 0}
            IN reached # {} =>
                 flat_height[l] = SetMax({hops[c] : c \in reached})

\* C10 (amended): after BuildAwayGradient, the reached cells of a flat l > 0
\* are those joined to a high-edge seed of l by 8-neighbour hops over cells
\* of l with F = NO_FLOW; each has M(c) = 1 + the least number of such hops
\* (a seed has M = 1); every other cell has M = 0; flat_height[l] is
\* the maximum of M over l, and 0 when l has no high-edge seed.
C10_AwayDistance ==
  AfterAwayGradient =>
    LET hops == AwayHops
    IN /\ \A c \in GridCells :
            IF labels[c] > 0 /\ hops[c] >= 0
              THEN flat_mask[c] = 1 + hops[c]
              ELSE flat_mask[c] = 0
       /\ \A l \in 1 .. (group_number - 1) :
            flat_height[l] =
              SetMax({flat_mask[c] : c \in {d \in GridCells : labels[d] = l}})
       /\ flat_height[0] = 0

C10_Witness ==
  /\ AfterAwayGradient
  /\ \E c \in GridCells :
       /\ labels[c] > 0
       /\ flat_mask[c] = 3
       /\ flat_height[labels[c]] = 3
       /\ \E d \in GridCells : labels[d] = labels[c] /\ flat_mask[d] = 0

\* The cells the away gradient marked.
AwayReached == {c \in GridCells : labels[c] > 0 /\ AwayHops[c] >= 0}

\* C3: when resolve_flats_barnes returns no cell of the mask is negative
\* (M = 0 or M >= 1), and every cell the away gradient marked (a cell joined
\* to a high-edge seed of its flat) holds a positive value.
C3_MaskNonNegative ==
  Resolved =>
    /\ \A c \in GridCells : flat_mask[c] >= 0
    /\ Len(low_edges) > 0 => \A c \in AwayReached : flat_mask[c] >= 1

C3_Witness ==
  /\ Resolved
  /\ Len(low_edges) > 0
  /\ \E c \in AwayReached : AwayHops[c] >= 1 /\ flat_mask[c] >= 1
  /\ \E c \in GridCells : labels[c] > 0 /\ flat_mask[c] = 0

\* C1: when resolve_flats_barnes returns, every cell c with L(c) > 0 that is
\* not a low-edge seed has an 8-neighbour of its label with a smaller mask, or
\* an 8-neighbour outside its flat at strictly lower elevation.
C1_StrictDrainage ==
  Resolved =>
    \A c \in GridCells :
      (labels[c] > 0 /\ c \notin LowEdgeSeeds) =>
        \/ \E d \in AllNeighbours(c) :
             labels[d] = labels[c] /\ flat_mask[d] < flat_mask[c]
        \/ \E d \in AllNeighbours(c) :
             /\ labels[d] # labels[c]
             /\ elevations[d] # ElevNoData
             /\ elevations[d] < elevations[c]

C1_Witness ==
  /\ Resolved
  /\ Len(low_edges) > 0
  /\ \E c \in GridCells :
       /\ labels[c] > 0
       /\ c \notin LowEdgeSeeds
       /\ flowdirs[c] = NO_FLOW
       /\ AwayHops[c] >= 1
       /\ TowardHops[c] >= 2
       /\ \E d \in AllNeighbours(c) :
            labels[d] = labels[c] /\ flat_mask[d] < flat_mask[c]
  /\ \E c \in GridCells :
       labels[c] > 0 /\ c \notin LowEdgeSeeds /\ flowdirs[c] # NO_FLOW

\* The steepest-descent raster the run started from (mask mode leaves the
\* elevations alone).
InitialFlow == d8_flow_directions(elevations)

C2_FlowAssigner ==
  [][(pc = "resolved" /\ pc' = "flow_assigned") =>
       \A c \in GridCells :
         /\ (isInterior(c) /\ labels[c] > 0) => flowdirs'[c] \in 1 .. 8
         /\ (flowdirs[c] = NO_FLOW /\ flowdirs'[c] # NO_FLOW) =>
              /\ isInterior(c)
              /\ flowdirs'[c] \in 1 .. 8
              /\ labels[Nbr(c, flowdirs'[c])] = labels[c]
              /\ flat_mask[Nbr(c, flowdirs'[c])] <= flat_mask[c]
         /\ flowdirs[c] # NO_FLOW => flowdirs'[c] = flowdirs[c]]_vars

C2_Witness ==
  /\ pc = "flow_assigned"
  /\ \E c \in GridCells :
       /\ isInterior(c)
       /\ labels[c] > 0
       /\ InitialFlow[c] = NO_FLOW
       /\ flowdirs[c] \in 1 .. 8
       /\ labels[Nbr(c, flowdirs[c])] = labels[c]
       /\ \E n \in 1 .. 8 : labels[Nbr(c, n)] # labels[c]

\* C6: for an interior NO_FLOW cell c, d8_masked_FlowDir returns a direction
\* whose neighbour has the least mask among the same-label neighbours with a
\* mask below M(c) (NO_FLOW when there is none), and the direction is even
\* only if no odd-index neighbour of the label has that least mask.
C6_TieBreak ==
  [][(pc = "resolved" /\ pc' = "flow_assigned") =>
       \A c \in GridCells :
         (isInterior(c) /\ flowdirs[c] = NO_FLOW /\ flat_mask[c] # MaskNoData) =>
           LET below == {n \in 1 .. 8 : /\ labels[Nbr(c, n)] = labels[c]
                                        /\ flat_mask[Nbr(c, n)] < flat_mask[c]}
           IN IF below = {} THEN flowdirs'[c] = NO_FLOW
              ELSE LET lowest == SetMin({flat_mask[Nbr(c, n)] : n \in below})
                       chosen == flowdirs'[c]
                   IN /\ chosen \in below
                      /\ flat_mask[Nbr(c, chosen)] = lowest
                      /\ chosen % 2 = 0 =>
                           \A n \in below :
                             n % 2 = 1 => flat_mask[Nbr(c, n)] # lowest]_vars

\* Neighbours 2 and 3 tie at the least mask, neighbour 1 does not have it,
\* and the cell was sent to 3.
C6_Witness ==
  /\ pc = "flow_assigned"
  /\ view_width = 3
  /\ labels[Nbr(Centre, 2)] = 1
  /\ labels[Nbr(Centre, 3)] = 1
  /\ flat_mask[Nbr(Centre, 2)] = 1
  /\ flat_mask[Nbr(Centre, 3)] = 1
  /\ flat_mask[Nbr(Centre, 1)] # 1
  /\ flat_mask[Centre] > 1
  /\ flowdirs[Centre] = 3

FlatCells == {c \in GridCells : labels[c] > 0}

\* The low-edge cell beside the outlet: the flat cell with a cardinal
\* neighbour that is strictly lower.
OutletSide == {c \in LowEdgeSeeds :
                 \E k \in 1 .. 4 :
                   /\ in_grid(Nbr(c, 2 * k - 1))
                   /\ elevations[Nbr(c, 2 * k - 1)] < elevations[c]}

Chebyshev(a, b) ==
  LET ax == IF a[1] >= b[1] THEN a[1] - b[1] ELSE b[1] - a[1]
      ay == IF a[2] >= b[2] THEN a[2] - b[2] ELSE b[2] - a[2]
  IN IF ax >= ay THEN ax ELSE ay

\* C7 (as stated): in alter mode on S2, d8_flats_alter_dem leaves the
\* elevation of the flat's outlet-side low-edge cell unchanged, and flat cells
\* farther from that cell receive more upward steps than nearer ones.
C7_AsStated ==
  [][(pc = "resolved" /\ pc' = "dem_altered" /\ Len(low_edges) > 0) =>
       \A s \in OutletSide :
         /\ elevations'[s] = elevations[s]
         /\ \A a, b \in FlatCells :
              Chebyshev(a, s) > Chebyshev(b, s) =>
                elevations'[a] - elevations[a] > elevations'[b] - elevations[b]]_vars

\* C7 (amended): in alter mode on S2, d8_flats_alter_dem raises every cell
\* of the flat by its mask; each low-edge cell, the outlet-side one included,
\* is raised by exactly 2 steps, the fewest in the flat; a flat
\* cell more 8-neighbour hops away from the low-edge cells receives strictly
\* more steps than a nearer one; no cell outside the flat changes.
C7_AlterSteps ==
  [][(pc = "resolved" /\ pc' = "dem_altered" /\ Len(low_edges) > 0) =>
       /\ \A c \in GridCells :
            elevations'[c] = elevations[c] + (IF labels[c] > 0 THEN flat_mask[c] ELSE 0)
       /\ \A s \in LowEdgeSeeds : elevations'[s] = elevations[s] + 2
       /\ \A c \in FlatCells : elevations'[c] >= elevations[c] + 2
       /\ LET hops == TowardHopsInLabel
          IN \A a, b \in FlatCells :
               hops[a] > hops[b] =>
                 elevations'[a] - elevations[a] > elevations'[b] - elevations[b]]_vars

\* Scenario S2 itself after d8_flats_alter_dem: the outlet-side cell (3,2)
\* is 2 steps above 5.0 and the far cell (1,2) is 7 steps above it.
C7_Witness ==
  /\ pc = "dem_altered"
  /\ view_width = 5
  /\ elevations[grid_cell(4, 2)] = f32(1)
  /\ elevations[grid_cell(3, 2)] = f32(5) + 2
  /\ elevations[grid_cell(1, 2)] = f32(5) + 7
  /\ Cardinality(FlatCells) = 9

(***************************************************************************)
(* The closed form of the combined gradient.                               *)
(***************************************************************************)
\* A(c): the value BuildAwayGradient assigned, 0 for a cell it did not reach.
AwayDepth ==
  LET hops == AwayHops
  IN [c \in GridCells |-> IF labels[c] > 0 /\ hops[c] >= 0 THEN 1 + hops[c] ELSE 0]

\* M(c) for a cell first dequeued at wavefront depth b.
ClosedForm(c, a, b) ==
  IF a > 0 THEN 2 * b + (flat_height[labels[c]] - a) ELSE 2 * b

TowardStage == pc = "toward" /\ pc' = "toward"
SignFlip == pc = "away" /\ pc' = "toward"

\* C11: the sign flip turns the away value A(c) of every cell into -A(c); an
\* iteration of the toward loop changes the mask of the dequeued cell only,
\* and only while it still holds -A(c) (it was never assigned in the stage),
\* to 2*loops + (flat_height[l] - A(c)) if A(c) > 0 and to 2*loops otherwise,
\* which is positive, so that no cell is assigned twice; when the stage is
\* over every cell reached from the low-edge seeds holds that value, with
\* the depth of its first dequeue 1 + its hops from the nearest seed.
C11_CombinedGradient ==
  /\ [][SignFlip =>
          LET a == AwayDepth
          IN \A c \in GridCells : flat_mask[c] = a[c] /\ flat_mask'[c] = -a[c]]_vars
  /\ [][(TowardStage /\ flat_mask' # flat_mask) =>
          LET a == AwayDepth
              c == Head(edges)
          IN /\ \A d \in GridCells \ {c} : flat_mask'[d] = flat_mask[d]
             /\ flat_mask[c] = -a[c]
             /\ flat_mask'[c] = ClosedForm(c, a[c], loops)
             /\ flat_mask'[c] > 0]_vars
  /\ [][(TowardStage /\ Head(edges) # iteration_marker
            /\ flat_mask[Head(edges)] <= 0) => flat_mask' # flat_mask]_vars
  /\ []((Resolved /\ Len(low_edges) > 0) =>
          LET a == AwayDepth
              toward == TowardHops
          IN \A c \in GridCells :
               IF labels[c] > 0 /\ toward[c] >= 0
                 THEN flat_mask[c] = ClosedForm(c, a[c], 1 + toward[c])
                 ELSE flat_mask[c] = 0)

\* A resolved flat with a cell the away gradient reached, below the height of
\* its flat and dequeued at depth 3 or more, and a cell the away gradient did
\* not reach.
C11_Witness ==
  /\ Resolved
  /\ Len(low_edges) > 0
  /\ \E c \in GridCells :
       /\ labels[c] > 0
       /\ AwayDepth[c] >= 1
       /\ TowardHops[c] >= 2
       /\ flat_height[labels[c]] > AwayDepth[c]
       /\ flat_mask[c] = ClosedForm(c, AwayDepth[c], 1 + TowardHops[c])
  /\ \E c \in GridCells :
       /\ labels[c] > 0
       /\ AwayDepth[c] = 0
       /\ TowardHops[c] >= 0
       /\ flat_mask[c] = 2 * (1 + TowardHops[c])

(***************************************************************************)
(* Termination of the two marker-driven loops.                             *)
(***************************************************************************)
InLoop == pc \in {"away", "toward"}

LoopIteration == InLoop /\ pc' = pc

Markers == {i \in 1 .. Len(edges) : edges[i] = iteration_marker}

OnlyMarker == edges = <<iteration_marker>>

\* C12: in BuildAwayGradient and in BuildTowardsCombinedGradient the queue
\* holds exactly one iteration marker at every test of the loop; an iteration
\* that dequeues a cell whose mask is not positive leaves it positive, one
\* that dequeues a cell whose mask is positive changes nothing but the queue
\* (no cell is expanded twice), no other cell's mask changes; and a loop
\* that is running, entered with seeds or with the marker alone, reaches the
\* state in which its queue is the marker alone (the second loop is entered
\* only from that state of the first).
C12_LoopsTerminate ==
  /\ [](InLoop => Cardinality(Markers) = 1)
  /\ [][LoopIteration =>
          LET c == Head(edges)
          IN /\ \A d \in GridCells : d # c => flat_mask'[d] = flat_mask[d]
             /\ c # iteration_marker =>
                  IF flat_mask[c] > 0
                    THEN flat_mask' = flat_mask /\ edges' = Tail(edges)
                    ELSE flat_mask'[c] > 0]_vars
  /\ InLoop ~> (InLoop /\ OnlyMarker)

\* The away loop was entered with no seed (the marker alone, no iteration
\* run), and the toward loop has come down to the marker after assigning
\* cells over three wavefronts or more.
C12_Witness ==
  /\ pc = "toward"
  /\ OnlyMarker
  /\ HighEdgeSeeds = {}
  /\ loops >= 3
  /\ \E c \in GridCells : flat_mask[c] >= 6

====
